---- MODULE Spec2Model ----
(***************************************************************************)
(* A model of the IGES decoder of iges2vtk (package iges2vtk.iges): the    *)
(* four section readers, the document object (Iges), the typed entities'   *)
(* add_parameters and the file driver IgesReader.read_file.                *)
(*                                                                         *)
(* Text is modelled as a tuple of one-character strings, so that slicing,  *)
(* stripping, splitting and the numeric conversions are computed the way   *)
(* the Python code computes them.  A Python exception that leaves a        *)
(* method is recorded in the variable err and ends the session.            *)
(***************************************************************************)
EXTENDS Integers, Sequences, FiniteSets, TLC

(***************************************************************************)
(* Python string primitives                                                *)
(***************************************************************************)
DIGITS == <<"0", "1", "2", "3", "4", "5", "6", "7", "8", "9">>

IsDigit(c) == \E i \in 1..10 : DIGITS[i] = c

DigitVal(c) == (CHOOSE i \in 1..10 : DIGITS[i] = c) - 1

IsSpace(c) == c \in {" ", "\n"}

SetMin(S) == CHOOSE x \in S : \A y \in S : x <= y

\* clamp of a slice bound, as Python does for s[a:b]
PyIdx(n, i) == IF i < 0 THEN (IF n + i < 0 THEN 0 ELSE n + i)
               ELSE (IF i > n THEN n ELSE i)

\* s[a:b] with 0-based, possibly negative, bounds
PySlice(s, a, b) ==
    LET lo == PyIdx(Len(s), a)
        hi == PyIdx(Len(s), b)
    IN  IF lo >= hi THEN <<>> ELSE SubSeq(s, lo + 1, hi)

\* s[a:]
PyFrom(s, a) == PySlice(s, a, Len(s))

RECURSIVE LStrip(_)
LStrip(s) == IF s # <<>> /\ IsSpace(Head(s)) THEN LStrip(Tail(s)) ELSE s

RECURSIVE RStrip(_)
RStrip(s) == IF s # <<>> /\ IsSpace(s[Len(s)])
             THEN RStrip(SubSeq(s, 1, Len(s) - 1)) ELSE s

\* str.strip()
Strip(s) == LStrip(RStrip(s))

\* str.replace(a, b) for one-character a and b
Replace(s, a, b) == [i \in 1..Len(s) |-> IF s[i] = a THEN b ELSE s[i]]

\* str.find(c) for a one-character c: 0-based index or -1
Find(s, c) ==
    LET occ == {i \in 1..Len(s) : s[i] = c}
    IN  IF occ = {} THEN -1 ELSE SetMin(occ) - 1

\* str.split(d) for a non-empty separator d
RECURSIVE Split(_, _)
Split(s, d) ==
    LET n   == Len(d)
        occ == {i \in 1..(Len(s) - n + 1) : SubSeq(s, i, i + n - 1) = d}
    IN  IF occ = {} THEN <<s>>
        ELSE LET i == SetMin(occ)
             IN  <<SubSeq(s, 1, i - 1)>> \o Split(SubSeq(s, i + n, Len(s)), d)

\* str.zfill(2)
ZFill2(s) == IF Len(s) >= 2 THEN s
             ELSE IF Len(s) = 1 THEN <<"0">> \o s ELSE <<"0", "0">>

RECURSIVE Concat(_)
Concat(ss) == IF ss = <<>> THEN <<>> ELSE Head(ss) \o Concat(Tail(ss))

AllDigits(s) == \A i \in 1..Len(s) : IsDigit(s[i])

RECURSIVE StrToNat(_)
StrToNat(s) == IF s = <<>> THEN 0
               ELSE 10 * StrToNat(SubSeq(s, 1, Len(s) - 1)) + DigitVal(s[Len(s)])

\* int(str): surrounding blanks and one sign are accepted, then digits only
PyInt(s) ==
    LET Digits(neg, body) ==
            IF body = <<>> \/ ~AllDigits(body)
            THEN [err |-> "ValueError", v |-> 0]
            ELSE [err |-> "none",
                  v   |-> IF neg THEN 0 - StrToNat(body) ELSE StrToNat(body)]
        Signed(t) ==
            IF t # <<>> /\ t[1] \in {"-", "+"}
            THEN Digits(t[1] = "-", Tail(t)) ELSE Digits(FALSE, t)
    IN  Signed(Strip(s))

(***************************************************************************)
(* Values held by the document: a float is the decimal m / 10^e in lowest  *)
(* form, a str is its text.  Both kinds share one record shape.            *)
(***************************************************************************)
RECURSIVE Norm(_, _)
Norm(m, e) == IF e > 0 /\ m % 10 = 0 THEN Norm(m \div 10, e - 1)
              ELSE [m |-> m, e |-> e]

Num(m, e) == LET n == Norm(m, e) IN [t |-> "num", m |-> n.m, e |-> n.e, s |-> <<>>]

Str(s) == [t |-> "str", m |-> 0, e |-> 0, s |-> s]

\* bool(value)
Truthy(v) == IF v.t = "num" THEN v.m # 0 ELSE v.s # <<>>

\* float(str): blanks stripped, one sign, digits with at most one point
PyFloat(s) ==
    LET Digits(neg, ip, fp) ==
            IF ~(AllDigits(ip) /\ AllDigits(fp) /\ Len(ip) + Len(fp) > 0)
            THEN [err |-> "ValueError", val |-> Num(0, 0)]
            ELSE [err |-> "none",
                  val |-> Num(IF neg THEN 0 - StrToNat(ip \o fp)
                              ELSE StrToNat(ip \o fp), Len(fp))]
        Cut(neg, body, dot) ==
            IF dot = -1 THEN Digits(neg, body, <<>>)
            ELSE Digits(neg, PySlice(body, 0, dot), PyFrom(body, dot + 1))
        Body(neg, body) == Cut(neg, body, Find(body, "."))
        Signed(t) ==
            IF t # <<>> /\ t[1] \in {"-", "+"}
            THEN Body(t[1] = "-", Tail(t)) ELSE Body(FALSE, t)
    IN  Signed(Strip(s))

RECURSIVE Pow10(_)
Pow10(e) == IF e = 0 THEN 1 ELSE 10 * Pow10(e - 1)

\* int(value): a float is truncated toward zero, a str is parsed
IntOf(v) ==
    IF v.t = "str" THEN PyInt(v.s)
    ELSE [err |-> "none",
          v   |-> IF v.m >= 0 THEN v.m \div Pow10(v.e)
                  ELSE 0 - ((0 - v.m) \div Pow10(v.e))]

(***************************************************************************)
(* section_reader.py helpers                                               *)
(***************************************************************************)
\* a read_hollerith that takes the last H of the text as the end of the count
read_hollerith_LastH(string) ==
    LET occ == {i \in 1..Len(string) : string[i] = "H"}
        Content(i, length) ==
            IF length.err # "none" THEN [err |-> "ValueError", val |-> <<>>]
            ELSE [err |-> "none", val |-> PySlice(string, i + 1, i + 1 + length.v)]
        At(i) ==
            IF i = -1 THEN [err |-> "IndexError", val |-> <<>>]
            ELSE Content(i, PyInt(PySlice(string, 0, i)))
    IN  At(IF occ = {} THEN -1 ELSE (CHOOSE i \in occ : \A j \in occ : j <= i) - 1)

\* read_hollerith: "<n>H<content>" gives the n characters after the first H
read_hollerith(string) ==
    LET Content(i, length) ==
            IF length.err # "none" THEN [err |-> "ValueError", val |-> <<>>]
            ELSE [err |-> "none", val |-> PySlice(string, i + 1, i + 1 + length.v)]
        At(i) ==
            IF i = -1 THEN [err |-> "IndexError", val |-> <<>>]
            ELSE Content(i, PyInt(PySlice(string, 0, i)))
    IN  At(Find(string, "H"))

\* chunk_string: consecutive pieces of the given length, the last one shorter
chunk_string(string, length) ==
    LET n == (Len(string) + length - 1) \div length
    IN  [j \in 1..n |-> PySlice(string, (j - 1) * length, j * length)]

(***************************************************************************)
(* common.py is not part of the sources at hand.  Pointer is the           *)
(* conversion of a directory sequence number into a registry key that the  *)
(* specification gives: pointer = (sequence - 1) / 2.                      *)
(***************************************************************************)
Pointer(x) == (x - 1) \div 2

(***************************************************************************)
(* entity.py                                                               *)
(***************************************************************************)
ENTRY_LENGTH == 8

\* Entity.parse_status_number
parse_status_number(x) ==
    PyInt(Concat([i \in 1..Len(Split(x, <<" ">>)) |-> ZFill2(Split(x, <<" ">>)[i])]))

NoAttrs == [n \in {} |-> <<>>]

SetAttr(a, name, val) ==
    [n \in (DOMAIN a) \cup {name} |-> IF n = name THEN val ELSE a[n]]

\* the dataclass constructor etype(*entity_param)
NewEntity(cls, p) ==
    [cls |-> cls,
     type_number |-> p[1], pd_pointer |-> p[2], structure |-> p[3],
     line_font_pattern |-> p[4], level |-> p[5], view |-> p[6],
     transformation_pointer |-> p[7], label_display_associativity |-> p[8],
     status_number |-> p[9], line_weight |-> p[10], color |-> p[11],
     parameter_line_count |-> p[12], form |-> p[13], entity_label |-> p[14],
     subscript |-> p[15],
     parameters |-> <<>>, attrs |-> NoAttrs]

\* Entity.add_parameters
EntityAdd(e, args) ==
    [err |-> "none", e |-> [e EXCEPT !.parameters = @ \o args]]

\* Point.add_parameters
PointAdd(e, args) ==
    [err |-> "none", e |-> [e EXCEPT !.attrs = SetAttr(@, "pos", PySlice(args, 0, 3))]]

\* Line.add_parameters
LineAdd(e, args) ==
    [err |-> "none",
     e   |-> [e EXCEPT !.attrs = SetAttr(SetAttr(@, "start", PySlice(args, 0, 3)),
                                         "end", PySlice(args, 3, 6))]]

\* a, b, ... = args[:n] : the names are bound only when exactly n values are there
RECURSIVE SetAll(_, _, _)
SetAll(a, names, vals) ==
    IF names = <<>> THEN a
    ELSE SetAll(SetAttr(a, Head(names), <<Head(vals)>>), Tail(names), Tail(vals))

Unpack(e, names, vals) ==
    IF Len(vals) # Len(names) THEN [err |-> "ValueError", e |-> e]
    ELSE [err |-> "none", e |-> [e EXCEPT !.attrs = SetAll(@, names, vals)]]

\* CircularArc.add_parameters
CircularArcAdd(e, args) ==
    Unpack(e, <<"z", "x", "y", "x1", "y1", "x2", "y2">>, PySlice(args, 0, 7))

\* ConicArc.add_parameters
ConicArcAdd(e, args) ==
    Unpack(e, <<"a", "b", "c", "d", "e", "f", "x1", "y1", "z1", "x2", "y2", "z2">>,
           PySlice(args, 0, 12))

\* Transformation.add_parameters
TransformationAdd(e, args) ==
    LET v == PySlice(args, 0, 12)
    IN  IF Len(v) # 12 THEN [err |-> "ValueError", e |-> e]
        ELSE [err |-> "none",
              e   |-> [e EXCEPT !.attrs =
                          SetAttr(SetAttr(@, "r", <<v[1], v[2], v[3], v[5], v[6], v[7],
                                                    v[9], v[10], v[11]>>),
                                  "t", <<v[4], v[8], v[12]>>)]]

\* RationalBSplineSurface.add_parameters.  The fields are assigned in the
\* order of the code, so an error leaves the ones assigned before it.
\* np.array(rows).reshape(k2+1, k1+1, 3) succeeds when every row holds three
\* coordinates and the row count is (k2+1)*(k1+1) with both factors >= 0
\* (a factor of -1, which numpy would infer, is taken as a failure here).
RationalBSplineSurfaceAdd(e, args) ==
    LET start_idx == 9
        head == PySlice(args, 0, start_idx)
        ints == [i \in 1..Len(head) |-> IntOf(head[i])]
    IN  IF Len(head) # 9 \/ (\E i \in 1..Len(head) : ints[i].err # "none")
        THEN [err |-> "ValueError", e |-> e]
        ELSE
        LET k1 == ints[1].v
            k2 == ints[2].v
            m1 == ints[3].v
            m2 == ints[4].v
            knot2_start   == start_idx + k2 + m1 + 2
            weight_start  == knot2_start + k1 + m2 + 2
            knot1         == PySlice(args, start_idx, knot2_start)
            knot2         == PySlice(args, knot2_start, weight_start)
            weight_count  == (k2 + 1) * (k1 + 1)
            control_start == weight_start + weight_count
            weights       == PySlice(args, weight_start, control_start)
            etc_start     == control_start + 3 * weight_count
            nrows         == IF etc_start > control_start THEN weight_count ELSE 0
            rows          == [j \in 1..nrows |->
                                 PySlice(args, control_start + 3 * (j - 1),
                                         control_start + 3 * j)]
            a1 == SetAll(e.attrs,
                         <<"k1", "k2", "m1", "m2", "flag1", "flag2", "flag3", "flag4", "flag5">>,
                         [i \in 1..9 |-> Num(ints[i].v, 0)])
            a2 == SetAttr(SetAttr(SetAttr(a1, "knot1", knot1), "knot2", knot2),
                          "weights", weights)
            a3 == SetAttr(a2, "control_points", Concat(rows))
            reshaped == /\ k1 + 1 >= 0
                        /\ k2 + 1 >= 0
                        /\ nrows = weight_count
                        /\ \A j \in 1..nrows : Len(rows[j]) = 3
            rest == PyFrom(args, etc_start)
            a4 == SetAll(a3, <<"U0", "U1", "V0", "V1">>, rest)
        IN  IF ~reshaped THEN [err |-> "ValueError", e |-> [e EXCEPT !.attrs = a3]]
            ELSE IF Len(rest) # 4 THEN [err |-> "ValueError", e |-> [e EXCEPT !.attrs = a3]]
            ELSE IF \/ Len(knot1) # 2 + k2 + m1
                    \/ Len(knot2) # 2 + k1 + m2
                    \/ Len(weights) # weight_count
                    \/ 3 * nrows # weight_count * 3
                 THEN [err |-> "AssertionError", e |-> [e EXCEPT !.attrs = a4]]
            ELSE [err |-> "none", e |-> [e EXCEPT !.attrs = a4]]

\* an add_parameters of the curve that takes K weights where K+1 are due
RationalBSplineCurveAdd_ShortWeights(e, args) ==
    LET InRange(i) == (0 - Len(args)) <= i /\ i < Len(args)
        At(i) == args[(IF i < 0 THEN i + Len(args) ELSE i) + 1]
        Range(a, b) == [j \in 1..(IF b > a THEN b - a ELSE 0) |-> At(a + j - 1)]
        Chunks(t) == [j \in 1..((Len(t) + 2) \div 3) |-> PySlice(t, 3 * (j - 1), 3 * j)]
        Lists(a, weight_start_idx, control_start_idx, etc_start_idx) ==
            IF \E i \in 6..(weight_start_idx - 1) : ~InRange(i)
            THEN [err |-> "IndexError", e |-> [e EXCEPT !.attrs = a]]
            ELSE IF \E i \in weight_start_idx..(control_start_idx - 1) : ~InRange(i)
            THEN [err |-> "IndexError",
                  e   |-> [e EXCEPT !.attrs = SetAttr(a, "knots", Range(6, weight_start_idx))]]
            ELSE [err |-> "none",
                  e   |-> [e EXCEPT !.attrs =
                              SetAttr(SetAttr(SetAttr(a, "knots", Range(6, weight_start_idx)),
                                              "weights",
                                              Range(weight_start_idx, control_start_idx)),
                                      "control_points",
                                      Chunks(PySlice(args, control_start_idx,
                                                     etc_start_idx)))]]
        Trailing(a, weight_start_idx, control_start_idx, etc_start_idx) ==
            IF Len(PyFrom(args, etc_start_idx)) # 5
            THEN [err |-> "ValueError", e |-> [e EXCEPT !.attrs = a]]
            ELSE Lists(SetAll(a, <<"v0", "v1", "xn", "yn", "zn">>,
                              PyFrom(args, etc_start_idx)),
                       weight_start_idx, control_start_idx, etc_start_idx)
        Indexed(a, K, degree) ==
            Trailing(a, 8 + K + degree, 8 + K + degree + K,
                     8 + K + degree + K + 3 * K + 3)
        Leading(ints) ==
            IF Len(ints) # 6 \/ (\E i \in 1..Len(ints) : ints[i].err # "none")
            THEN [err |-> "ValueError", e |-> e]
            ELSE Indexed(SetAll(e.attrs,
                                <<"K", "degree", "flag1", "flag2", "flag3", "flag4">>,
                                [i \in 1..6 |-> Num(ints[i].v, 0)]),
                         ints[1].v, ints[2].v)
    IN  Leading([i \in 1..Len(PySlice(args, 0, 6)) |-> IntOf(args[i])])

\* RationalBSplineCurve.add_parameters.  The fields are assigned in the
\* order of the code, so an error leaves the ones assigned before it.
RationalBSplineCurveAdd(e, args) ==
    LET InRange(i) == (0 - Len(args)) <= i /\ i < Len(args)
        At(i) == args[(IF i < 0 THEN i + Len(args) ELSE i) + 1]
        Range(a, b) == [j \in 1..(IF b > a THEN b - a ELSE 0) |-> At(a + j - 1)]
        Chunks(t) == [j \in 1..((Len(t) + 2) \div 3) |-> PySlice(t, 3 * (j - 1), 3 * j)]
        Lists(a, weight_start_idx, control_start_idx, etc_start_idx) ==
            IF \E i \in 6..(weight_start_idx - 1) : ~InRange(i)
            THEN [err |-> "IndexError", e |-> [e EXCEPT !.attrs = a]]
            ELSE IF \E i \in weight_start_idx..(control_start_idx - 1) : ~InRange(i)
            THEN [err |-> "IndexError",
                  e   |-> [e EXCEPT !.attrs = SetAttr(a, "knots", Range(6, weight_start_idx))]]
            ELSE [err |-> "none",
                  e   |-> [e EXCEPT !.attrs =
                              SetAttr(SetAttr(SetAttr(a, "knots", Range(6, weight_start_idx)),
                                              "weights",
                                              Range(weight_start_idx, control_start_idx)),
                                      "control_points",
                                      Chunks(PySlice(args, control_start_idx,
                                                     etc_start_idx)))]]
        Trailing(a, weight_start_idx, control_start_idx, etc_start_idx) ==
            IF Len(PyFrom(args, etc_start_idx)) # 5
            THEN [err |-> "ValueError", e |-> [e EXCEPT !.attrs = a]]
            ELSE Lists(SetAll(a, <<"v0", "v1", "xn", "yn", "zn">>,
                              PyFrom(args, etc_start_idx)),
                       weight_start_idx, control_start_idx, etc_start_idx)
        Indexed(a, K, degree) ==
            Trailing(a, 8 + K + degree, 8 + K + degree + K + 1,
                     8 + K + degree + K + 1 + 3 * K + 3)
        Leading(ints) ==
            IF Len(ints) # 6 \/ (\E i \in 1..Len(ints) : ints[i].err # "none")
            THEN [err |-> "ValueError", e |-> e]
            ELSE Indexed(SetAll(e.attrs,
                                <<"K", "degree", "flag1", "flag2", "flag3", "flag4">>,
                                [i \in 1..6 |-> Num(ints[i].v, 0)]),
                         ints[1].v, ints[2].v)
    IN  Leading([i \in 1..Len(PySlice(args, 0, 6)) |-> IntOf(args[i])])

\* CopiousData.TYPE2PARSE_LENGTH
TYPE2PARSE_LENGTH == (1 :> 2) @@ (2 :> 3) @@ (3 :> 6)

\* CopiousData.parse_tuple; common_z is <<>> for None and <<z>> for the value
\* z.  The shared value is appended to a tuple when "if self.common_z" holds.
parse_tuple(common_z, args, length) ==
    IF common_z # <<>> /\ Truthy(common_z[1])
    THEN [tuple_idx \in 1..(Len(args) \div length) |->
             PySlice(args, (tuple_idx - 1) * length, tuple_idx * length) \o common_z]
    ELSE [tuple_idx \in 1..(Len(args) \div length) |->
             PySlice(args, (tuple_idx - 1) * length, tuple_idx * length)]

\* CopiousData.add_parameters.  The fields are assigned in the order of the
\* code, so an error leaves the ones assigned before it.
CopiousDataAdd(e, args) ==
    LET Points(attrs, tuple_type, common_z, coordinates) ==
            IF tuple_type \notin DOMAIN TYPE2PARSE_LENGTH
            THEN [err |-> "KeyError", e |-> [e EXCEPT !.attrs = attrs]]
            ELSE [err |-> "none",
                  e   |-> [e EXCEPT !.attrs =
                              SetAttr(attrs, "point_list",
                                      parse_tuple(common_z, coordinates,
                                                  TYPE2PARSE_LENGTH[tuple_type]))]]
        Typed(attrs, tuple_type) ==
            IF tuple_type = 1
            THEN IF Len(args) < 2
                 THEN [err |-> "IndexError", e |-> [e EXCEPT !.attrs = attrs]]
                 ELSE Points(SetAttr(attrs, "common_z", <<args[2]>>), tuple_type,
                             <<args[2]>>, PyFrom(args, 2))
            ELSE Points(SetAttr(attrs, "common_z", <<>>), tuple_type, <<>>,
                        PyFrom(args, 1))
        First(t) ==
            IF t.err # "none" THEN [err |-> "ValueError", e |-> e]
            ELSE Typed(SetAttr(e.attrs, "tuple_type", <<Num(t.v, 0)>>), t.v)
    IN  IF args = <<>> THEN [err |-> "IndexError", e |-> e]
        ELSE First(IntOf(args[1]))

\* name = int(args[i]) for the names in turn, starting at index i (0-based)
RECURSIVE SetInts(_, _, _, _)
SetInts(attrs, names, args, i) ==
    IF names = <<>> THEN [err |-> "none", attrs |-> attrs]
    ELSE IF i >= Len(args) THEN [err |-> "IndexError", attrs |-> attrs]
    ELSE IF IntOf(args[i + 1]).err # "none" THEN [err |-> "ValueError", attrs |-> attrs]
    ELSE SetInts(SetAttr(attrs, Head(names), <<Num(IntOf(args[i + 1]).v, 0)>>),
                 Tail(names), args, i + 1)

\* Face.add_parameters: loops = [args[i] for i in range(3, 2 + loop_count)]
FaceAdd(e, args) ==
    LET Loops(attrs, loop_count) ==
            IF loop_count > 1 /\ 2 + loop_count > Len(args)
            THEN [err |-> "IndexError", e |-> [e EXCEPT !.attrs = attrs]]
            ELSE [err |-> "none",
                  e   |-> [e EXCEPT !.attrs =
                              SetAttr(attrs, "loops",
                                      IF loop_count > 1
                                      THEN PySlice(args, 3, 2 + loop_count)
                                      ELSE <<>>)]]
        Counted(r) ==
            IF r.err # "none" THEN [err |-> r.err, e |-> [e EXCEPT !.attrs = r.attrs]]
            ELSE Loops(r.attrs, r.attrs.loop_count[1].m)
    IN  Counted(SetInts(e.attrs, <<"pointer", "loop_count", "loop_flag">>, args, 0))

\* entity.add_parameters(*parameters), dispatched on the entity's class.  The
\* classes below are the ones the directory records of the inputs create.
AddParameters(e, args) ==
    CASE e.cls = "Point"                  -> PointAdd(e, args)
      [] e.cls = "Line"                   -> LineAdd(e, args)
      [] e.cls = "CircularArc"            -> CircularArcAdd(e, args)
      [] e.cls = "ConicArc"               -> ConicArcAdd(e, args)
      [] e.cls = "Transformation"         -> TransformationAdd(e, args)
      [] e.cls = "RationalBSplineCurve"   -> RationalBSplineCurveAdd(e, args)
      [] e.cls = "RationalBSplineSurface" -> RationalBSplineSurfaceAdd(e, args)
      [] e.cls = "CopiousData"            -> CopiousDataAdd(e, args)
      [] e.cls = "Face"                   -> FaceAdd(e, args)
      [] OTHER                            -> EntityAdd(e, args)

(***************************************************************************)
(* iges.py: the document                                                   *)
(***************************************************************************)
DEFAULT_DELIMITER == Str(<<",">>)

DEFAULT_ENDING == Str(<<";">>)

NewIges == [entity_dict |-> [k \in {} |-> 0], description |-> <<>>,
            global_data_list |-> <<>>]

\* Iges.add_entity
add_entity(ig, entity, sequence) ==
    [ig EXCEPT !.entity_dict =
        [k \in (DOMAIN @) \cup {sequence} |-> IF k = sequence THEN entity ELSE @[k]]]

\* Iges.delimiter: global_data_list[0:1][0] if it is truthy, else the default
delimiter(ig) ==
    LET first == PySlice(ig.global_data_list, 0, 1)
    IN  IF first = <<>> THEN [err |-> "IndexError", val |-> DEFAULT_DELIMITER]
        ELSE IF Truthy(first[1]) THEN [err |-> "none", val |-> first[1]]
        ELSE [err |-> "none", val |-> DEFAULT_DELIMITER]

\* Iges.ending: global_data_list[1:2][0] if it is truthy, else the default
ending(ig) ==
    LET second == PySlice(ig.global_data_list, 1, 2)
    IN  IF second = <<>> THEN [err |-> "IndexError", val |-> DEFAULT_ENDING]
        ELSE IF Truthy(second[1]) THEN [err |-> "none", val |-> second[1]]
        ELSE [err |-> "none", val |-> DEFAULT_ENDING]

(***************************************************************************)
(* start_section_reader.py                                                 *)
(* Every reader method is an operator from the reader (rd) and the         *)
(* document (ig) to the exception that leaves it (err, "none" when it      *)
(* returns) and the reader and document it leaves behind.                  *)
(***************************************************************************)
NewStartReader == [unit_buffer |-> <<>>]

StartReadLine(rd, line) == [err |-> "none", rd |-> [rd EXCEPT !.unit_buffer = @ \o line.content]]

\* returns the buffer itself: true when it is not empty
StartUnitReady(rd) == rd.unit_buffer # <<>>

StartProcessUnit(rd, ig, sequence) ==
    [err |-> "none",
     rd  |-> [rd EXCEPT !.unit_buffer = <<>>],
     ig  |-> [ig EXCEPT !.description = @ \o rd.unit_buffer]]

(***************************************************************************)
(* global_section_reader.py                                                *)
(***************************************************************************)
NewGlobalReader == [unit_buffer |-> <<>>, left_over |-> <<>>]

\* identify_data: the characters before the first "," or "H", and which it is
identify_data(remaining_line) ==
    LET First(ends) ==
            IF ends = {} THEN [err |-> "IndexError", data_type |-> "", length |-> 0]
            ELSE [err |-> "none", data_type |-> remaining_line[SetMin(ends)],
                  length |-> SetMin(ends) - 1]
    IN  First({i \in 1..Len(remaining_line) : remaining_line[i] \in {",", "H"}})

parse_numerical(rd, i, length, content) ==
    LET Store(data) ==
            IF data.err # "none" THEN [err |-> data.err, rd |-> rd, i |-> i]
            ELSE [err |-> "none", rd |-> [rd EXCEPT !.unit_buffer = Append(@, data.val)],
                  i |-> i + length]
        Data(string) ==
            IF string # <<>> THEN Store(PyFloat(string))
            ELSE Store([err |-> "none", val |-> Num(0, 0)])
    IN  Data(PySlice(content, i, i + length))

parse_string(rd, i, length, content) ==
    LET Take(data_end) ==
            IF data_end > Len(content)
            THEN [err |-> "none",
                  rd  |-> [rd EXCEPT !.left_over = PySlice(content, i, data_end)],
                  i   |-> Len(content)]
            ELSE [err |-> "none",
                  rd  |-> [rd EXCEPT !.unit_buffer =
                              Append(@, Str(PySlice(content, i + length + 1, data_end)))],
                  i   |-> data_end]
        Sized(string_length) ==
            IF string_length.err # "none" THEN [err |-> "ValueError", rd |-> rd, i |-> i]
            ELSE Take(i + length + string_length.v + 1)
    IN  Sized(PyInt(PySlice(content, i, i + length)))

\* the while loop of read_line
RECURSIVE GlobalScan(_, _, _)
GlobalScan(rd, i, content) ==
    LET Advance(r) ==
            IF r.err # "none" THEN [err |-> r.err, rd |-> r.rd]
            ELSE GlobalScan(r.rd, r.i + 1, content)
        Parse(id) ==
            IF id.err # "none" THEN [err |-> id.err, rd |-> rd]
            ELSE IF id.data_type = ","
            THEN Advance(parse_numerical(rd, i, id.length, content))
            ELSE Advance(parse_string(rd, i, id.length, content))
    IN  IF i >= Len(content) THEN [err |-> "none", rd |-> rd]
        ELSE Parse(identify_data(PyFrom(content, i)))

GlobalReadLine(rd, line) ==
    LET Scan(joined) ==
            IF joined = <<>> THEN [err |-> "IndexError", rd |-> rd]
            ELSE GlobalScan([rd EXCEPT !.left_over = <<>>], 0,
                            IF joined[Len(joined)] = ";" THEN Replace(joined, ";", ",")
                            ELSE joined)
    IN  Scan(Strip(rd.left_over \o line.content))

GlobalUnitReady(rd) == Len(rd.unit_buffer) > 0

\* a process_unit that puts the new values in front of the list
GlobalProcessUnit_Prepend(rd, ig, sequence) ==
    [err |-> "none",
     rd  |-> [rd EXCEPT !.unit_buffer = <<>>],
     ig  |-> [ig EXCEPT !.global_data_list = rd.unit_buffer \o @]]

GlobalProcessUnit(rd, ig, sequence) ==
    [err |-> "none",
     rd  |-> [rd EXCEPT !.unit_buffer = <<>>],
     ig  |-> [ig EXCEPT !.global_data_list = @ \o rd.unit_buffer]]

(***************************************************************************)
(* data_entry_section_reader.py                                            *)
(***************************************************************************)
etype2class ==
    (100 :> "CircularArc") @@ (102 :> "CompositeCurve") @@ (104 :> "ConicArc") @@
    (106 :> "CopiousData") @@ (110 :> "Line") @@ (116 :> "Point") @@
    (120 :> "SurfaceOfRevolution") @@ (124 :> "Transformation") @@
    (126 :> "RationalBSplineCurve") @@ (128 :> "RationalBSplineSurface") @@
    (142 :> "CurveOnParametricSurface") @@ (144 :> "TrimmedSurface") @@
    (308 :> "SubfigureDefinition") @@ (502 :> "VertexList") @@ (504 :> "EdgeList") @@
    (508 :> "Loop") @@ (510 :> "Face")

FIELD_COUNT == 15

NewDataReader == [unit_buffer |-> <<>>]

DataReadLine(rd, line) ==
    [err |-> "none",
     rd  |-> [rd EXCEPT !.unit_buffer = @ \o chunk_string(line.content, ENTRY_LENGTH)]]

\* a unit_ready that is content with the chunks of one line
DataUnitReady_OneLine(rd) == Len(rd.unit_buffer) >= 9

DataUnitReady(rd) == Len(rd.unit_buffer) >= FIELD_COUNT

\* an entry conversion without the default of 0 for a blank entry
DataField_BlankFails(i, entry) ==
    LET Val(r) == [err |-> r.err, val |-> r.v]
    IN  IF i = 8 THEN Val(parse_status_number(entry))
        ELSE IF i = 16 THEN [err |-> "none", val |-> entry]
        ELSE Val(PyInt(Strip(entry)))

\* one entry of the loop of process_unit; i is the 0-based index of enumerate
DataField(i, entry) ==
    LET Val(r) == [err |-> r.err, val |-> r.v]
        Field(filled) ==
            IF filled # <<>> THEN Val(PyInt(filled)) ELSE Val([err |-> "none", v |-> 0])
    IN  IF i = 8 THEN Val(parse_status_number(entry))
        ELSE IF i = 16 THEN [err |-> "none", val |-> entry]
        ELSE Field(Strip(entry))

\* the list entity_param: the entries other than 9, 14 and 15, converted.
\* Two 72-column lines give 18 entries, hence the 15 positional arguments of
\* the constructor; its optional 16th and 17th are never supplied by them.
RECURSIVE EntityParam(_, _)
EntityParam(t, i) ==
    IF i >= Len(t) THEN <<>>
    ELSE IF i \in {9, 14, 15} THEN EntityParam(t, i + 1)
    ELSE <<DataField(i, t[i + 1])>> \o EntityParam(t, i + 1)

DataProcessUnit(rd, ig, sequence) ==
    LET Create(entity_param) ==
            IF entity_param = <<>> THEN [err |-> "IndexError", rd |-> rd, ig |-> ig]
            ELSE IF entity_param[1] \notin DOMAIN etype2class
            THEN [err |-> "none", rd |-> [rd EXCEPT !.unit_buffer = <<>>], ig |-> ig]
            ELSE IF Len(entity_param) < 15 \/ Len(entity_param) > 17
            THEN [err |-> "TypeError", rd |-> rd, ig |-> ig]
            ELSE [err |-> "none",
                  rd  |-> [rd EXCEPT !.unit_buffer = <<>>],
                  ig  |-> add_entity(ig,
                                     NewEntity(etype2class[entity_param[1]], entity_param),
                                     sequence - 1)]
        Convert(fields) ==
            IF \E j \in 1..Len(fields) : fields[j].err # "none"
            THEN [err |-> "ValueError", rd |-> rd, ig |-> ig]
            ELSE Create([j \in 1..Len(fields) |-> fields[j].val])
    IN  Convert(EntityParam(rd.unit_buffer, 0))

(***************************************************************************)
(* parameter_section_reader.py                                             *)
(* pointer is <<>> for None and <<k>> for the key k.                       *)
(***************************************************************************)
NewParamReader == [pointer |-> <<>>, unit_buffer |-> <<>>, line_count |-> 0]

\* ParameterSectionReader.convert
convert(entry) ==
    LET Text(r) == [err |-> r.err, val |-> Str(r.val)]
    IN  IF Find(entry, "H") = -1
        THEN IF entry # <<>> THEN PyFloat(entry) ELSE [err |-> "none", val |-> Num(0, 0)]
        ELSE Text(read_hollerith(entry))

\* read_line; "split" is the delimiter the line was split with (<<>> if the
\* line was not split)
ParamReadLine(rd, ig, line) ==
    LET Extend(rd1, parameters, d) ==
            IF d.err # "none" THEN [err |-> d.err, rd |-> rd1, split |-> <<>>]
            ELSE IF d.val.t # "str" THEN [err |-> "TypeError", rd |-> rd1, split |-> <<>>]
            ELSE [err   |-> "none",
                  rd    |-> [rd1 EXCEPT !.unit_buffer = @ \o Split(parameters, d.val.s)],
                  split |-> <<d.val>>]
        Point(content, back) ==
            IF back.err # "none" THEN [err |-> "ValueError", rd |-> rd, split |-> <<>>]
            ELSE Extend([rd EXCEPT !.pointer = <<Pointer(back.v)>>, !.line_count = @ + 1],
                        PySlice(Strip(PySlice(content, 0, 64)), 0, -1),
                        delimiter(ig))
    IN  Point(line.content, PyInt(Replace(PySlice(line.content, 64, 72), " ", "0")))

Registered(ig, pointer) == pointer # <<>> /\ pointer[1] \in DOMAIN ig.entity_dict

ParamUnitReady(rd, ig) ==
    IF Registered(ig, rd.pointer)
    THEN ig.entity_dict[rd.pointer[1]].parameter_line_count = rd.line_count
    ELSE TRUE

\* process_unit; "called" tells whether add_parameters was invoked, "args"
\* the list it was given and "aerr" the exception it raised
ParamProcessUnit(rd, ig, sequence) ==
    LET Outcome(sliced, key, args, r) ==
            IF r.err \in {"none", "KeyError"}
            THEN [err |-> "none", rd |-> NewParamReader,
                  ig  |-> [ig EXCEPT !.entity_dict[key] = r.e],
                  called |-> TRUE, args |-> args, aerr |-> r.err]
            ELSE [err |-> r.err, rd |-> sliced,
                  ig  |-> [ig EXCEPT !.entity_dict[key] = r.e],
                  called |-> TRUE, args |-> args, aerr |-> r.err]
        Populate(sliced, args) ==
            IF ~Registered(ig, rd.pointer)
            THEN [err |-> "none", rd |-> NewParamReader, ig |-> ig,
                  called |-> FALSE, args |-> <<>>, aerr |-> "none"]
            ELSE Outcome(sliced, rd.pointer[1], args,
                         AddParameters(ig.entity_dict[rd.pointer[1]], args))
        Converted(sliced, conv) ==
            IF \E j \in 1..Len(conv) : conv[j].err # "none"
            THEN [err |-> "ValueError", rd |-> sliced, ig |-> ig,
                  called |-> FALSE, args |-> <<>>, aerr |-> "none"]
            ELSE Populate(sliced, [j \in 1..Len(conv) |-> conv[j].val])
        Entries(unit, entries) ==
            Converted([rd EXCEPT !.unit_buffer = unit],
                      [j \in 1..Len(entries) |-> convert(entries[j])])
        Unit(unit) == Entries(unit, SelectSeq(unit, LAMBDA entry : entry # <<>>))
    IN  Unit(PyFrom(rd.unit_buffer, 1))

(***************************************************************************)
(* Inputs: the lines a session is fed.  A line is the record IgesLine      *)
(* (content of 72 columns, section code, sequence number).                 *)
(***************************************************************************)
\* total number of lines read in a session of the readers
MaxLines == 5

\* largest value passed as process_unit's argument
MaxSeqArg == 2

\* largest number of physical lines of a file given to read_file
MaxFileLen == 3

RECURSIVE NatToStr(_)
NatToStr(n) == IF n < 10 THEN <<DIGITS[n + 1]>>
               ELSE NatToStr(n \div 10) \o <<DIGITS[(n % 10) + 1]>>

Blank(n) == [i \in 1..n |-> " "]

PadRight(s, n) == s \o Blank(n - Len(s))

PadLeft(s, n) == Blank(n - Len(s)) \o s

\* "A"
S_TEXT ==
    <<"A">>

\* "1H,,1H;;"
G_DECL ==
    <<"1", "H", ",", ",", "1", "H", ";", ";">>

\* "1HA,7,"
G_ALT ==
    <<"1", "H", "A", ",", "7", ",">>

\* "7,1HA,"
G_NUM ==
    <<"7", ",", "1", "H", "A", ",">>

\* "110,1.0,2.0,0.0,4.0,5.0,0.0;"
P_FULL ==
    <<"1", "1", "0", ",", "1", ".", "0", ",", "2", ".", "0", ",", "0", ".",
    "0", ",", "4", ".", "0", ",", "5", ".", "0", ",", "0", ".", "0", ";">>

\* "110.0,1.0,2.0,0.0,"
P_HEAD ==
    <<"1", "1", "0", ".", "0", ",", "1", ".", "0", ",", "2", ".", "0", ",",
    "0", ".", "0", ",">>

\* "4.0,5.0,0.0;"
P_TAIL ==
    <<"4", ".", "0", ",", "5", ".", "0", ",", "0", ".", "0", ";">>

\* "110,1.0,,3.0;"
P_EMPTY ==
    <<"1", "1", "0", ",", "1", ".", "0", ",", ",", "3", ".", "0", ";">>

\* "212,1D0;"
P_TEXT ==
    <<"2", "1", "2", ",", "1", "D", "0", ";">>

\* "110,3HA,1;"
P_HSPLIT ==
    <<"1", "1", "0", ",", "3", "H", "A", ",", "1", ";">>

\* "128,0,0,-3,0,0,0,0,0,0,1,1,0,0,0,0,1,0,1;"
P_SURF_BAD ==
    <<"1", "2", "8", ",", "0", ",", "0", ",", "-", "3", ",", "0", ",", "0",
    ",", "0", ",", "0", ",", "0", ",", "0", ",", "1", ",", "1", ",", "0", ",",
    "0", ",", "0", ",", "0", ",", "1", ",", "0", ",", "1", ";">>

\* "106,5,1.0,2.0;": a CopiousData whose type code is none of 1, 2, 3
P_COPIOUS_BAD ==
    <<"1", "0", "6", ",", "5", ",", "1", ".", "0", ",", "2", ".", "0", ";">>

\* columns 69-72 hold "4HAB": the string goes on in the next line
G_CUT == Blank(68) \o <<"4", "H", "A", "B">>

StartTexts == {S_TEXT}

GlobalTexts == {G_DECL, G_ALT, G_NUM, G_CUT}

ParamTexts == {P_FULL, P_HEAD, P_TAIL, P_EMPTY, P_TEXT, P_HSPLIT, P_SURF_BAD,
               P_COPIOUS_BAD}

\* the directory sequence numbers the parameter lines point back to
BackPointers == {1, 3}

\* directory records: <<type number, parameter line count>>
DERecs == {<<110, 1>>, <<110, 2>>, <<100, 1>>, <<128, 1>>, <<212, 1>>, <<106, 1>>}

\* columns 1-64 hold the parameters, columns 65-72 the back-pointer
ParamContent(text, back) == PadRight(text, 64) \o PadLeft(NatToStr(back), 8)

\* first line of a directory record: type, parameter pointer, six blank
\* fields, status number
DataContent1(rec) ==
    PadLeft(NatToStr(rec[1]), 8) \o PadLeft(<<"1">>, 8) \o Blank(48)
        \o <<"0", "0", "0", "0", "0", "0", "0", "0">>

\* second line: type, weight, colour, parameter line count, form, two
\* reserved fields, label, subscript
DataContent2(rec) ==
    PadLeft(NatToStr(rec[1]), 8) \o PadLeft(<<"0">>, 8) \o PadLeft(<<"0">>, 8)
        \o PadLeft(NatToStr(rec[2]), 8) \o PadLeft(<<"0">>, 8) \o Blank(16)
        \o PadLeft(<<"L">>, 8) \o PadLeft(<<"0">>, 8)

IgesLine(content, section, sequence) ==
    [content |-> content, section |-> section, sequence |-> sequence]

(***************************************************************************)
(* State                                                                   *)
(***************************************************************************)
VARIABLES
    iges,           \* the document shared by the readers (distribute_iges)
    start_reader,   \* IgesReader.start_reader
    global_reader,  \* IgesReader.global_reader
    data_reader,    \* IgesReader.data_reader
    param_reader,   \* IgesReader.param_reader
    err,            \* the exception that ended the session, or "none"
    pending,        \* section of the reader whose unit is ready, or "-"
    nread,          \* lines read so far, per section
    derec,          \* the directory record whose first line was read last
    buffered,       \* per reader: sequence numbers (D) and back-pointers (P) of the buffered lines
    last,           \* what the last operation did
    add_log,        \* the add_parameters invocations so far
    delims,         \* the delimiter each parameter line was split with, and the
                    \* length of global_data_list at that moment
    unsupported,    \* sequence numbers of the directory records skipped for their type
    file,           \* read_file: the physical lines of the file
    pos,            \* read_file: number of lines taken from the file
    pc,             \* "api", or read_file's state: "reading", "done", "stopped"
    handed,         \* read_file: the lines given to read_line, as <<section, index>>
    fed,            \* the contents of the Global lines fed to the Global reader alone
    call            \* the last call of a function or method on its own: [op, arg, res]

vars == <<iges, start_reader, global_reader, data_reader, param_reader, err, pending,
          nread, derec, buffered, last, add_log, delims, unsupported, file, pos, pc,
          handed, fed, call>>

readers == <<start_reader, global_reader, data_reader, param_reader>>

driver == <<file, pos, pc, handed>>

aux == <<fed, call>>

NoCall == [op |-> "none", arg |-> <<>>, res |-> <<>>]

LastNone ==
    [op |-> "none", section |-> "-", seq |-> 0, lines |-> <<>>, unit |-> <<>>,
     ptr |-> <<>>, registered |-> FALSE, called |-> FALSE, args |-> <<>>,
     aerr |-> "none", changed |-> FALSE, etype |-> -1]

\* the entry of delims for one read_line of the parameter reader
SplitEntry(split, ig) ==
    [i \in 1..Len(split) |-> [delim |-> split[i], nglobal |-> Len(ig.global_data_list)]]

Total == nread.S + nread.G + nread.D + nread.P

\* IgesReader.__init__ and distribute_iges(Iges()): fresh readers, one document
Fresh ==
    /\ iges = NewIges
    /\ start_reader = NewStartReader
    /\ global_reader = NewGlobalReader
    /\ data_reader = NewDataReader
    /\ param_reader = NewParamReader
    /\ err = "none"
    /\ pending = "-"
    /\ nread = [S |-> 0, G |-> 0, D |-> 0, P |-> 0]
    /\ derec = <<0, 0>>
    /\ buffered = [D |-> <<>>, P |-> <<>>]
    /\ last = LastNone
    /\ add_log = <<>>
    /\ delims = <<>>
    /\ unsupported = {}
    /\ handed = <<>>
    /\ pos = 0
    /\ fed = <<>>
    /\ call = NoCall

Init == Fresh /\ file = <<>> /\ pc = "api"

(***************************************************************************)
(* A client of the readers follows the SectionReader protocol: read_line,  *)
(* then process_unit(sequence) when unit_ready() holds.  The argument of   *)
(* process_unit is the client's choice.                                    *)
(***************************************************************************)
CanRead == pc = "api" /\ err = "none" /\ pending = "-" /\ Total < MaxLines

CanProcess(section) == pc = "api" /\ err = "none" /\ pending = section

StartRead ==
    /\ CanRead
    /\ \E text \in StartTexts :
         \E line \in {IgesLine(PadRight(text, 72), "S", nread.S + 1)} :
         \E r \in {StartReadLine(start_reader, line)} :
             /\ start_reader' = r.rd
             /\ err' = r.err
             /\ pending' = IF r.err = "none" /\ StartUnitReady(r.rd) THEN "S" ELSE "-"
             /\ last' = [LastNone EXCEPT !.op = "read_line", !.section = "S",
                                         !.seq = line.sequence]
    /\ nread' = [nread EXCEPT !.S = @ + 1]
    /\ UNCHANGED <<iges, global_reader, data_reader, param_reader, derec, buffered,
                   add_log, delims, unsupported, driver, aux>>

StartProcess ==
    /\ CanProcess("S")
    /\ \E sequence \in 1..MaxSeqArg :
         \E r \in {StartProcessUnit(start_reader, iges, sequence)} :
             /\ start_reader' = r.rd
             /\ iges' = r.ig
             /\ err' = r.err
    /\ pending' = "-"
    /\ last' = [LastNone EXCEPT !.op = "process_unit", !.section = "S"]
    /\ UNCHANGED <<global_reader, data_reader, param_reader, nread, derec, buffered,
                   add_log, delims, unsupported, driver, aux>>

GlobalRead ==
    /\ CanRead
    /\ \E text \in GlobalTexts :
         \E line \in {IgesLine(PadRight(text, 72), "G", nread.G + 1)} :
         \E r \in {GlobalReadLine(global_reader, line)} :
             /\ global_reader' = r.rd
             /\ err' = r.err
             /\ pending' = IF r.err = "none" /\ GlobalUnitReady(r.rd) THEN "G" ELSE "-"
             /\ last' = [LastNone EXCEPT !.op = "read_line", !.section = "G",
                                         !.seq = line.sequence]
    /\ nread' = [nread EXCEPT !.G = @ + 1]
    /\ UNCHANGED <<iges, start_reader, data_reader, param_reader, derec, buffered,
                   add_log, delims, unsupported, driver, aux>>

GlobalProcess ==
    /\ CanProcess("G")
    /\ \E sequence \in 1..MaxSeqArg :
         \E r \in {GlobalProcessUnit(global_reader, iges, sequence)} :
             /\ global_reader' = r.rd
             /\ iges' = r.ig
             /\ err' = r.err
    /\ pending' = "-"
    /\ last' = [LastNone EXCEPT !.op = "process_unit", !.section = "G"]
    /\ UNCHANGED <<start_reader, data_reader, param_reader, nread, derec, buffered,
                   add_log, delims, unsupported, driver, aux>>

\* the directory lines come in records: an odd line opens a record of DERecs,
\* the even line that follows is the second line of the same record
DataRead ==
    /\ CanRead
    /\ \E rec \in (IF nread.D % 2 = 0 THEN DERecs ELSE {derec}) :
         \E line \in {IgesLine(IF nread.D % 2 = 0 THEN DataContent1(rec)
                                       ELSE DataContent2(rec), "D", nread.D + 1)} :
         \E r \in {DataReadLine(data_reader, line)} :
             /\ data_reader' = r.rd
             /\ err' = r.err
             /\ pending' = IF r.err = "none" /\ DataUnitReady(r.rd) THEN "D" ELSE "-"
             /\ derec' = rec
             /\ buffered' = [buffered EXCEPT !.D = Append(@, line.sequence)]
             /\ last' = [LastNone EXCEPT !.op = "read_line", !.section = "D",
                                         !.seq = line.sequence]
    /\ nread' = [nread EXCEPT !.D = @ + 1]
    /\ UNCHANGED <<iges, start_reader, global_reader, param_reader, add_log, delims, unsupported, driver, aux>>

DataProcess ==
    /\ CanProcess("D")
    /\ \E sequence \in 1..MaxSeqArg :
         \E r \in {DataProcessUnit(data_reader, iges, sequence)} :
             /\ data_reader' = r.rd
             /\ iges' = r.ig
             /\ err' = r.err
             /\ last' = [LastNone EXCEPT !.op = "process_unit", !.section = "D",
                                         !.seq = sequence, !.lines = buffered.D,
                                         !.changed = (r.ig.entity_dict # iges.entity_dict),
                                         !.etype = derec[1]]
             /\ unsupported' = IF r.err = "none" /\ derec[1] \notin DOMAIN etype2class
                               THEN unsupported \cup {buffered.D[1]}
                               ELSE unsupported
    /\ pending' = "-"
    /\ buffered' = [buffered EXCEPT !.D = <<>>]
    /\ UNCHANGED <<start_reader, global_reader, param_reader, nread, derec,
                   add_log, delims, driver, aux>>

ParamRead ==
    /\ CanRead
    /\ \E text \in ParamTexts, back \in BackPointers :
         \E line \in {IgesLine(ParamContent(text, back), "P", nread.P + 1)} :
         \E r \in {ParamReadLine(param_reader, iges, line)} :
             /\ param_reader' = r.rd
             /\ err' = r.err
             /\ pending' = IF r.err = "none" /\ ParamUnitReady(r.rd, iges) THEN "P" ELSE "-"
             /\ delims' = delims \o SplitEntry(r.split, iges)
             /\ buffered' = [buffered EXCEPT !.P = Append(@, back)]
             /\ last' = [LastNone EXCEPT !.op = "read_line", !.section = "P",
                                         !.seq = line.sequence, !.ptr = r.rd.pointer]
    /\ nread' = [nread EXCEPT !.P = @ + 1]
    /\ UNCHANGED <<iges, start_reader, global_reader, data_reader, derec, add_log, unsupported, driver, aux>>

ParamProcess ==
    /\ CanProcess("P")
    /\ \E sequence \in 1..MaxSeqArg :
         \E r \in {ParamProcessUnit(param_reader, iges, sequence)} :
             /\ param_reader' = r.rd
             /\ iges' = r.ig
             /\ err' = r.err
             /\ add_log' = IF r.called
                           THEN Append(add_log, [key |-> param_reader.pointer[1],
                                                 aerr |-> r.aerr])
                           ELSE add_log
             /\ last' = [LastNone EXCEPT !.op = "process_unit", !.section = "P",
                                         !.lines = buffered.P,
                                         !.unit = param_reader.unit_buffer,
                                         !.ptr = param_reader.pointer,
                                         !.registered = Registered(iges, param_reader.pointer),
                                         !.called = r.called, !.args = r.args,
                                         !.aerr = r.aerr,
                                         !.changed = (r.ig.entity_dict # iges.entity_dict)]
    /\ pending' = "-"
    /\ buffered' = [buffered EXCEPT !.P = <<>>]
    /\ UNCHANGED <<start_reader, global_reader, data_reader, nread, derec, delims, unsupported, driver, aux>>

Next ==
    \/ StartRead
    \/ StartProcess
    \/ GlobalRead
    \/ GlobalProcess
    \/ DataRead
    \/ DataProcess
    \/ ParamRead
    \/ ParamProcess

Spec == Init /\ [][Next]_vars

(***************************************************************************)
(* The Global reader on its own: a session of Global lines, each followed  *)
(* by process_unit when a unit is ready.  The lines fill all 72 columns,   *)
(* so a Hollerith string can run past the end of a line.                   *)
(***************************************************************************)
\* number of Global lines of such a session
MaxGlobalLines == 3

\* "1H,,1H;,7,2HAB,"
G_LIST ==
    <<"1", "H", ",", ",", "1", "H", ";", ",", "7", ",", "2", "H", "A", "B", ",">>


\* "CD,7,"
G_REST ==
    <<"C", "D", ",", "7", ",">>

\* columns 69-72 hold "3HA ": the blank of column 72 belongs to the string
G_CUT_BLANK == Blank(68) \o <<"3", "H", "A", " ">>

\* "B,7,"
G_REST_BLANK ==
    <<"B", ",", "7", ",">>

\* "1H::1H;:7:8:" declares the delimiter ":"
G_COLON ==
    <<"1", "H", ":", ":", "1", "H", ";", ":", "7", ":", "8", ":">>

GlobalFeedTexts == {G_DECL, G_LIST, G_CUT, G_REST, G_CUT_BLANK, G_REST_BLANK, G_COLON}

GlobalFeed ==
    /\ pc = "api" /\ err = "none" /\ pending = "-" /\ nread.G < MaxGlobalLines
    /\ \E text \in GlobalFeedTexts :
         \E line \in {IgesLine(PadRight(text, 72), "G", nread.G + 1)} :
         \E r \in {GlobalReadLine(global_reader, line)} :
             /\ global_reader' = r.rd
             /\ err' = r.err
             /\ pending' = IF r.err = "none" /\ GlobalUnitReady(r.rd) THEN "G" ELSE "-"
             /\ fed' = Append(fed, line.content)
             /\ last' = [LastNone EXCEPT !.op = "read_line", !.section = "G",
                                         !.seq = line.sequence]
    /\ nread' = [nread EXCEPT !.G = @ + 1]
    /\ UNCHANGED <<iges, start_reader, data_reader, param_reader, derec, buffered,
                   add_log, delims, unsupported, driver, call>>

NextGlobal ==
    \/ GlobalFeed
    \/ GlobalProcess

SpecGlobal == Init /\ [][NextGlobal]_vars

(***************************************************************************)
(* The Parameter reader with two entities registered: the session has read *)
(* the Global line "1H,,1H;;" and two directory records and has processed  *)
(* them with the sequences 1 and 2, so the keys 0 and 1 are registered.    *)
(* Parameter lines follow, each followed by process_unit when a unit is    *)
(* ready.                                                                  *)
(***************************************************************************)
\* number of Parameter lines of such a session
MaxParamLines == 4

\* directory records of the two entities: Lines of one or two parameter lines
LineRecs == {<<110, 1>>, <<110, 2>>}

ParamFeedTexts == {P_FULL, P_HEAD, P_TAIL}

\* the Global reader and the document after the line "1H,,1H;;" is processed
AfterGlobal ==
    GlobalProcessUnit(GlobalReadLine(NewGlobalReader,
                                     IgesLine(PadRight(G_DECL, 72), "G", 1)).rd,
                      NewIges, 1)

\* the Directory reader and the document after the two lines of rec are
\* read and processed with the given sequence
AfterRecord(rd, ig, rec, sequence) ==
    DataProcessUnit(DataReadLine(DataReadLine(rd, IgesLine(DataContent1(rec), "D",
                                                           2 * sequence - 1)).rd,
                                 IgesLine(DataContent2(rec), "D", 2 * sequence)).rd,
                    ig, sequence)

InitParam ==
    /\ pc = "api" /\ file = <<>> /\ pos = 0 /\ handed = <<>>
    /\ fed = <<>> /\ call = NoCall
    /\ start_reader = NewStartReader
    /\ global_reader = AfterGlobal.rd
    /\ param_reader = NewParamReader
    /\ \E recA \in LineRecs, recB \in LineRecs :
         \E first \in {AfterRecord(NewDataReader, AfterGlobal.ig, recA, 1)} :
         \E second \in {AfterRecord(first.rd, first.ig, recB, 2)} :
             /\ iges = second.ig
             /\ data_reader = second.rd
             /\ derec = recB
             /\ last = [LastNone EXCEPT !.op = "process_unit", !.section = "D",
                                        !.seq = 2, !.lines = <<3, 4>>,
                                        !.changed = TRUE, !.etype = recB[1]]
    /\ err = "none"
    /\ pending = "-"
    /\ nread = [S |-> 0, G |-> 1, D |-> 4, P |-> 0]
    /\ buffered = [D |-> <<>>, P |-> <<>>]
    /\ add_log = <<>>
    /\ delims = <<>>
    /\ unsupported = {}

ParamFeed ==
    /\ pc = "api" /\ err = "none" /\ pending = "-" /\ nread.P < MaxParamLines
    /\ \E text \in ParamFeedTexts, back \in BackPointers :
         \E line \in {IgesLine(ParamContent(text, back), "P", nread.P + 1)} :
         \E r \in {ParamReadLine(param_reader, iges, line)} :
             /\ param_reader' = r.rd
             /\ err' = r.err
             /\ pending' = IF r.err = "none" /\ ParamUnitReady(r.rd, iges) THEN "P" ELSE "-"
             /\ delims' = delims \o SplitEntry(r.split, iges)
             /\ buffered' = [buffered EXCEPT !.P = Append(@, back)]
             /\ last' = [LastNone EXCEPT !.op = "read_line", !.section = "P",
                                         !.seq = line.sequence, !.ptr = r.rd.pointer]
    /\ nread' = [nread EXCEPT !.P = @ + 1]
    /\ UNCHANGED <<iges, start_reader, global_reader, data_reader, derec, add_log,
                   unsupported, driver, aux>>

NextParam ==
    \/ ParamFeed
    \/ ParamProcess

SpecParam == InitParam /\ [][NextParam]_vars

(***************************************************************************)
(* iges_reader.py: IgesReader.read_file.  A physical line is its text,     *)
(* newline included: 72 columns of content, the section code in column 73  *)
(* and the sequence number in columns 74-80.                               *)
(***************************************************************************)
MkLine(content, section, sequence) ==
    PadRight(content, 72) \o <<section>> \o PadLeft(NatToStr(sequence), 7) \o <<"\n">>

\* "S      1G      1D      2P      2"
T_TEXT ==
    <<"S">> \o PadLeft(<<"1">>, 7) \o <<"G">> \o PadLeft(<<"1">>, 7)
        \o <<"D">> \o PadLeft(<<"2">>, 7) \o <<"P">> \o PadLeft(<<"2">>, 7)

F_S == MkLine(S_TEXT, "S", 1)

F_G == MkLine(G_DECL, "G", 1)

F_D1 == MkLine(DataContent1(<<110, 2>>), "D", 1)

F_D2 == MkLine(DataContent2(<<110, 2>>), "D", 2)

F_P1 == MkLine(ParamContent(P_HEAD, 1), "P", 1)

F_P2 == MkLine(ParamContent(P_TAIL, 1), "P", 2)

F_T == MkLine(T_TEXT, "T", 1)

\* a line with an unknown section code, and a line that ends before column 73
F_X == MkLine(S_TEXT, "X", 1)

F_SHORT == <<"A", "\n">>

\* 72 columns and the newline: no section code, no sequence number
F_72 == PadRight(S_TEXT, 72) \o <<"\n">>

FileLines == {F_S, F_G, F_D1, F_D2, F_P1, F_P2, F_T, F_X, F_SHORT, F_72}

\* one Start line, one Global record, one Line entity, the Terminate line
MinimalFile == <<F_S, F_G, F_D1, F_D2, F_P1, F_P2, F_T>>

Files == {MinimalFile} \cup UNION {[1..n -> FileLines] : n \in 1..MaxFileLen}

\* a parse_line that takes a line without column 73 for a Start line
parse_line_Lenient(f, p) ==
    LET Numbered(line, sequence) ==
            IF sequence.err # "none"
            THEN [err |-> "ValueError", line |-> IgesLine(<<>>, "-", 0)]
            ELSE [err |-> "none",
                  line |-> IgesLine(PySlice(line, 0, 72), line[73], sequence.v)]
        Parse(line) ==
            IF Len(line) <= 72 THEN [err |-> "none", line |-> IgesLine(line, "S", 0)]
            ELSE Numbered(line, PyInt(Replace(PySlice(line, 73, -1), " ", "0")))
    IN  IF p < Len(f) THEN Parse(f[p + 1]) ELSE Parse(<<>>)

\* parse_line: readline() gives "" at the end of the file
parse_line(f, p) ==
    LET Numbered(line, sequence) ==
            IF sequence.err # "none"
            THEN [err |-> "ValueError", line |-> IgesLine(<<>>, "-", 0)]
            ELSE [err |-> "none",
                  line |-> IgesLine(PySlice(line, 0, 72), line[73], sequence.v)]
        Parse(line) ==
            IF Len(line) <= 72 THEN [err |-> "IndexError", line |-> IgesLine(<<>>, "-", 0)]
            ELSE Numbered(line, PyInt(Replace(PySlice(line, 73, -1), " ", "0")))
    IN  IF p < Len(f) THEN Parse(f[p + 1]) ELSE Parse(<<>>)

\* reader.read_line(line) of the reader that reader_map selects
ReadLineOf(line) ==
    LET S(r) == [err |-> r.err, S |-> r.rd, G |-> global_reader, D |-> data_reader,
                 P |-> param_reader, split |-> <<>>, ready |-> StartUnitReady(r.rd)]
        G(r) == [err |-> r.err, S |-> start_reader, G |-> r.rd, D |-> data_reader,
                 P |-> param_reader, split |-> <<>>, ready |-> GlobalUnitReady(r.rd)]
        D(r) == [err |-> r.err, S |-> start_reader, G |-> global_reader, D |-> r.rd,
                 P |-> param_reader, split |-> <<>>, ready |-> DataUnitReady(r.rd)]
        P(r) == [err |-> r.err, S |-> start_reader, G |-> global_reader, D |-> data_reader,
                 P |-> r.rd, split |-> r.split, ready |-> ParamUnitReady(r.rd, iges)]
    IN  CASE line.section = "S" -> S(StartReadLine(start_reader, line))
          [] line.section = "G" -> G(GlobalReadLine(global_reader, line))
          [] line.section = "D" -> D(DataReadLine(data_reader, line))
          [] line.section = "P" -> P(ParamReadLine(param_reader, iges, line))

\* One iteration of the while loop of read_file.  process_unit is called
\* without its required argument "sequence", so the call raises TypeError
\* before the body of process_unit runs.
ReadFileStep ==
    /\ pc = "reading"
    /\ pos' = pos + 1
    /\ \E p \in {parse_line(file, pos)} :
           IF p.err # "none"
           THEN /\ err' = p.err
                /\ pc' = "stopped"
                /\ last' = [LastNone EXCEPT !.op = "parse_line"]
                /\ UNCHANGED <<readers, delims, handed>>
           ELSE IF p.line.section = "T"
           THEN /\ pc' = "done"
                /\ last' = [LastNone EXCEPT !.op = "parse_line", !.section = "T"]
                /\ UNCHANGED <<readers, delims, handed, err>>
           ELSE IF p.line.section \notin {"S", "G", "D", "P"}
           THEN /\ err' = "KeyError"
                /\ pc' = "stopped"
                /\ last' = [LastNone EXCEPT !.op = "reader_map"]
                /\ UNCHANGED <<readers, delims, handed>>
           ELSE \E r \in {ReadLineOf(p.line)} :
                    /\ start_reader' = r.S
                    /\ global_reader' = r.G
                    /\ data_reader' = r.D
                    /\ param_reader' = r.P
                    /\ delims' = delims \o SplitEntry(r.split, iges)
                    /\ handed' = Append(handed, <<p.line.section, pos + 1>>)
                    /\ IF r.err # "none"
                       THEN /\ err' = r.err
                            /\ pc' = "stopped"
                            /\ last' = [LastNone EXCEPT !.op = "read_line",
                                                        !.section = p.line.section,
                                                        !.seq = p.line.sequence]
                       ELSE IF r.ready
                       THEN /\ err' = "TypeError"
                            /\ pc' = "stopped"
                            /\ last' = [LastNone EXCEPT !.op = "process_unit",
                                                        !.section = p.line.section]
                       ELSE /\ err' = "none"
                            /\ pc' = "reading"
                            /\ last' = [LastNone EXCEPT !.op = "read_line",
                                                        !.section = p.line.section,
                                                        !.seq = p.line.sequence]
    /\ UNCHANGED <<iges, pending, nread, derec, buffered, add_log, unsupported, file, aux>>

InitFile == Fresh /\ file \in Files /\ pc = "reading"

NextFile == ReadFileStep

SpecFile == InitFile /\ [][NextFile]_vars

(***************************************************************************)
(* The static helpers called on their own: each action applies one of them *)
(* to an input and records the input and the outcome in call.              *)
(***************************************************************************)
\* what a call of a static helper leaves alone
decoding == <<iges, readers, err, pending, nread, derec, buffered, last, add_log,
              delims, unsupported, driver, fed>>

\* longest text, apart from LongTexts, of a Hollerith string
MaxStrLen == 3

HollerithAlphabet == {"H", "7", ",", ";", " ", "A"}

\* texts whose length takes two decimal digits
LongTexts == {[i \in 1..k |-> IF i % 2 = 1 THEN "H" ELSE "9"] : k \in 10..12}

HollerithTexts ==
    UNION {[1..k -> HollerithAlphabet] : k \in 0..MaxStrLen} \cup LongTexts

\* f"{n}H{s}" with n = len(s)
HollerithOf(s) == NatToStr(Len(s)) \o <<"H">> \o s

CallReadHollerith ==
    /\ pc = "api" /\ err = "none" /\ call = NoCall
    /\ \E s \in HollerithTexts :
           call' = [op |-> "read_hollerith", arg |-> <<s>>,
                    res |-> read_hollerith(HollerithOf(s))]
    /\ UNCHANGED decoding

StatusValues == {0, 7, 10, 99}

\* "%02d" % v
Fmt2(v) == <<DIGITS[(v \div 10) + 1], DIGITS[(v % 10) + 1]>>

\* a component of a status field: two digits, two blank columns or nothing
StatusComponents == {Fmt2(v) : v \in StatusValues} \cup {<<" ", " ">>, <<>>}

\* the four components joined by single spaces
StatusText(q) == q[1] \o <<" ">> \o q[2] \o <<" ">> \o q[3] \o <<" ">> \o q[4]

\* most digits of an integer that are evaluated (Python integers have no
\* limit): 10^MaxDigits - 1 is the largest result
MaxDigits == 8

RECURSIVE StripZeros(_)
StripZeros(s) == IF s # <<>> /\ Head(s) = "0" THEN StripZeros(Tail(s)) ELSE s

\* the digits that parse_status_number hands to int() stay within MaxDigits
StatusFits(x) ==
    Len(StripZeros(Concat([i \in 1..Len(Split(x, <<" ">>)) |->
                               ZFill2(Split(x, <<" ">>)[i])]))) <= MaxDigits

CallParseStatusNumber ==
    /\ pc = "api" /\ err = "none" /\ call = NoCall
    /\ \E q \in [1..4 -> StatusComponents] :
           /\ StatusFits(StatusText(q))
           /\ call' = [op |-> "parse_status_number", arg |-> q,
                       res |-> parse_status_number(StatusText(q))]
    /\ UNCHANGED decoding

\* largest upper index K (K1, K2) and degree M (M1, M2) of a spline
MaxK == 3

MaxM == 2

\* how far the length of a parameter list departs from what K and M ask for
MaxDelta == 2

\* an entity as its directory record creates it, not yet populated
BareEntity(type_number) ==
    NewEntity(etype2class[type_number],
              <<type_number, 1, 0, 0, 0, 0, 0, 0, 0, 0, 0, 1, 0, <<>>, 0>>)

\* a parameter list: the leading integers, then the number i at index i
ArgsOf(leading, n) ==
    [i \in 1..n |-> IF i <= Len(leading) THEN Num(leading[i], 0) ELSE Num(i - 1, 0)]

\* the length of the list of a curve: 6 integers, K+M+2 knots, K+1 weights,
\* 3(K+1) coordinates, 2 range values and a normal
CurveLen(K, M) == 6 + (K + M + 2) + (K + 1) + 3 * (K + 1) + 5

CallCurveAdd ==
    /\ pc = "api" /\ err = "none" /\ call = NoCall
    /\ \E K \in 0..MaxK, M \in 0..MaxM, delta \in (0 - MaxDelta)..MaxDelta :
         \E args \in {ArgsOf(<<K, M, 0, 0, 0, 0>>, CurveLen(K, M) + delta)} :
             call' = [op |-> "RationalBSplineCurve.add_parameters",
                      arg |-> <<K, M, args>>,
                      res |-> RationalBSplineCurveAdd(BareEntity(126), args)]
    /\ UNCHANGED decoding

\* the length of the list of a surface: 9 integers, two knot vectors,
\* (K1+1)(K2+1) weights, three coordinates for each and 4 range values
SurfaceLen(K1, K2, M1, M2) ==
    9 + (K1 + M1 + 2) + (K2 + M2 + 2) + 4 * (K1 + 1) * (K2 + 1) + 4

CallSurfaceAdd ==
    /\ pc = "api" /\ err = "none" /\ call = NoCall
    /\ \E K1 \in 0..MaxK, K2 \in 0..MaxK, M1 \in 0..MaxM, M2 \in 0..MaxM,
          delta \in -1..1 :
         \E args \in {ArgsOf(<<K1, K2, M1, M2, 0, 0, 0, 0, 0>>,
                             SurfaceLen(K1, K2, M1, M2) + delta)} :
             call' = [op |-> "RationalBSplineSurface.add_parameters",
                      arg |-> <<K1, K2, M1, M2, args>>,
                      res |-> RationalBSplineSurfaceAdd(BareEntity(128), args)]
    /\ UNCHANGED decoding

\* largest absolute value of the coefficients a, c and f of a conic
MaxCoef == 2

\* coefficients of the mixed and linear terms; they are even, so that the
\* halves in the matrices of the conic are integers
EvenCoefs == {-2, 0, 2, 4}

IsSquare(n) == n >= 0 /\ \E r \in 0..n : r * r = n

ISqrt(n) == CHOOSE r \in 0..n : r * r = n

Abs(n) == IF n < 0 THEN 0 - n ELSE n

RECURSIVE Gcd(_, _)
Gcd(m, n) == IF n = 0 THEN m ELSE Gcd(n, m % n)

\* the float num / den.  A numpy float divided by zero is inf, -inf or nan
\* (with a warning, not an exception); a finite quotient is kept as the
\* fraction in lowest terms, its rounding left out.
Quotient(num, den) ==
    IF den = 0
    THEN [kind |-> IF num = 0 THEN "nan" ELSE IF num > 0 THEN "inf" ELSE "-inf",
          num |-> 0, den |-> 0]
    ELSE LET Reduced(g, sign) ==
                 [kind |-> "finite", num |-> sign * (num \div g), den |-> sign * (den \div g)]
         IN  Reduced(Gcd(Abs(num), Abs(den)), IF den < 0 THEN -1 ELSE 1)

\* np.linalg.eigvals of [[a, b/2], [b/2, c]], each eigenvalue doubled:
\* a + c + r and a + c - r with r = sqrt((a-c)^2 + b^2).  A diagonal matrix
\* gives its diagonal; otherwise the order is the one LAPACK happens to
\* return, so both orders are taken.
Eigvals2(a, b, c) ==
    IF b = 0 THEN {<<2 * a, 2 * c>>}
    ELSE {<<a + c + ISqrt((a - c) * (a - c) + b * b), a + c - ISqrt((a - c) * (a - c) + b * b)>>,
          <<a + c - ISqrt((a - c) * (a - c) + b * b), a + c + ISqrt((a - c) * (a - c) + b * b)>>}

\* np.linalg.det of [[a, b/2, d/2], [b/2, c, e/2], [d/2, e/2, f]], times 4
Det4(a, b, c, d, e, f) ==
    4 * a * c * f + b * d * e - a * e * e - c * d * d - f * b * b

\* ConicArc.get_major_raidus for the doubled eigenvalues eig:
\* -S / (l1**2 * l2) = -(Det4/4) / (eig[1]^2 * eig[2] / 8)
get_major_raidus(a, b, c, d, e, f, eig) ==
    [err |-> "none", eig |-> eig,
     val |-> Quotient(0 - 2 * Det4(a, b, c, d, e, f), eig[1] * eig[1] * eig[2])]

CallMajorRadius ==
    /\ pc = "api" /\ err = "none" /\ call = NoCall
    /\ \E a \in (0 - MaxCoef)..MaxCoef, c \in (0 - MaxCoef)..MaxCoef,
          f \in (0 - MaxCoef)..MaxCoef, b \in EvenCoefs, d \in {0, 2}, e \in {0, 2} :
         /\ IsSquare((a - c) * (a - c) + b * b)
         /\ \E eig \in Eigvals2(a, b, c) :
                call' = [op |-> "get_major_raidus", arg |-> <<a, b, c, d, e, f>>,
                         res |-> get_major_raidus(a, b, c, d, e, f, eig)]
    /\ UNCHANGED decoding

\* eight-column numeric chunks with the integer each stands for
NumChunks ==
    {<<PadLeft(<<"1">>, 8), 1>>, <<PadLeft(<<"0", "1">>, 8), 1>>,
     <<PadLeft(<<"1", "2">>, 8), 12>>, <<Blank(8), 0>>}

\* status chunks with the status number each stands for
StatusChunks ==
    {<<<<"0", "0", "0", "0", "0", "0", "0", "0">>, 0>>,
     <<<<"0", "0", "0", "2", "0", "2", "0", "1">>, 20201>>,
     <<<<"0", "1", "0", "1", "0", "1", "0", "1">>, 1010101>>,
     <<Blank(8), 0>>}

LabelChunks == {PadLeft(<<"S", "U", "B", "F", "I", "G", "1">>, 8), Blank(8)}

\* type numbers of directory records: 212 is not in etype2class
RecordTypes == {110, 116, 308, 212}

\* the two lines of a directory record: x fills the numeric fields of the
\* first line, y those of the second
RecordLine1(type_number, x, status) ==
    PadLeft(NatToStr(type_number), 8) \o x \o x \o x \o x \o x \o x \o x \o status

RecordLine2(type_number, y, label) ==
    PadLeft(NatToStr(type_number), 8) \o y \o y \o y \o y \o Blank(16) \o label \o y

\* DataEntrySectionReader: read_line of both lines, then process_unit
ProcessRecord(line1, line2, sequence) ==
    DataProcessUnit(DataReadLine(DataReadLine(NewDataReader,
                                              IgesLine(line1, "D", 1)).rd,
                                 IgesLine(line2, "D", 2)).rd,
                    NewIges, sequence)

CallProcessRecord ==
    /\ pc = "api" /\ err = "none" /\ call = NoCall
    /\ \E type_number \in RecordTypes, x \in NumChunks, y \in NumChunks,
          status \in StatusChunks, label \in LabelChunks, sequence \in 1..MaxSeqArg :
           call' = [op |-> "DataEntrySectionReader.process_unit",
                    arg |-> <<type_number, x, y, status, label, sequence>>,
                    res |-> ProcessRecord(RecordLine1(type_number, x[1], status[1]),
                                          RecordLine2(type_number, y[1], label),
                                          sequence)]
    /\ UNCHANGED decoding

\* largest number of coordinates that follow the type code (and the shared z)
MaxCoords == 7

\* values of the shared z of a list of couples
ZValues == {Num(0, 0), Num(5, 1), Num(-2, 0)}

\* the coordinates 1, 2, ..., n
Coordinates(n) == [i \in 1..n |-> Num(i, 0)]

CallCopiousAdd ==
    /\ pc = "api" /\ err = "none" /\ call = NoCall
    /\ \E tuple_type \in 0..4, z \in ZValues, n \in 0..MaxCoords :
         \E args \in {IF tuple_type = 1
                      THEN <<Num(1, 0), z>> \o Coordinates(n)
                      ELSE <<Num(tuple_type, 0)>> \o Coordinates(n)} :
             call' = [op |-> "CopiousData.add_parameters",
                      arg |-> <<tuple_type, args>>,
                      res |-> CopiousDataAdd(BareEntity(106), args)]
    /\ UNCHANGED decoding

\* largest declared loop count of a face
MaxLoops == 3

CallFaceAdd ==
    /\ pc = "api" /\ err = "none" /\ call = NoCall
    /\ \E n \in 0..MaxLoops, delta \in -1..1 :
         \E args \in {ArgsOf(<<7, n, 0>>, 3 + n + delta)} :
             call' = [op |-> "Face.add_parameters",
                      arg |-> <<n, args>>,
                      res |-> FaceAdd(BareEntity(510), args)]
    /\ UNCHANGED decoding

NextFn ==
    \/ CallReadHollerith
    \/ CallParseStatusNumber
    \/ CallCurveAdd
    \/ CallSurfaceAdd
    \/ CallMajorRadius
    \/ CallProcessRecord
    \/ CallCopiousAdd
    \/ CallFaceAdd

SpecFn == Init /\ [][NextFn]_vars

(***************************************************************************)
(* Properties                                                              *)
(***************************************************************************)
LineProcessed(section) == last.op = "process_unit" /\ last.section = section

\* C1: read_file on the minimal file (one Start line, one Global record
\* declaring "," and ";", one two-line Directory Entry of a Line, its two-line
\* Parameter record, the Terminate line) ends without error with a registry
\* of exactly one entity, a Line from (1,2,0) to (4,5,0).
C1_MinimalFileDecodes ==
    (file = MinimalFile /\ pc # "reading") =>
        /\ pc = "done"
        /\ err = "none"
        /\ Cardinality(DOMAIN iges.entity_dict) = 1
        /\ \A k \in DOMAIN iges.entity_dict :
             /\ iges.entity_dict[k].cls = "Line"
             /\ DOMAIN iges.entity_dict[k].attrs = {"start", "end"}
             /\ iges.entity_dict[k].attrs["start"] = <<Num(1, 0), Num(2, 0), Num(0, 0)>>
             /\ iges.entity_dict[k].attrs["end"] = <<Num(4, 0), Num(5, 0), Num(0, 0)>>

\* C2: a directory record of a supported type that starts at sequence number
\* 2k+1, processed with the sequence number of the line that completed it, is
\* in the registry at pointer k, the pointer the parameter reader derives
\* from the back-pointer 2k+1.
C2_PointerConvention ==
    (/\ LineProcessed("D")
     /\ err = "none"
     /\ last.etype \in DOMAIN etype2class
     /\ Len(last.lines) = 2
     /\ last.seq = last.lines[2])
    => /\ Pointer(last.lines[1]) \in DOMAIN iges.entity_dict
       /\ iges.entity_dict[Pointer(last.lines[1])].type_number = last.etype

\* C3: a parameter unit whose back-pointers name a directory record of an
\* unsupported type is skipped: no error, and the registry is left as it was.
C3_UnsupportedSkipped ==
    (/\ LineProcessed("P")
     /\ last.lines # <<>>
     /\ \A i \in 1..Len(last.lines) : last.lines[i] \in unsupported)
    => (err = "none" /\ ~last.changed)

\* C4: add_parameters is never invoked a second time on the same entity.
C4_PopulatedOnce ==
    \A i, j \in 1..Len(add_log) : add_log[i].key = add_log[j].key => i = j

\* C5: every parameter line of a session is split with the same delimiter,
\* whatever Global lines are processed before, between or after them.
C5_DelimiterFixed ==
    \A i, j \in 1..Len(delims) : delims[i].delim = delims[j].delim

\* two parameter lines were split, and a Global unit was added to the
\* document between the two
C5_Witness ==
    \E i, j \in 1..Len(delims) : i < j /\ delims[i].nglobal < delims[j].nglobal

\* C6: the delimiter and the terminator are the first and the second global
\* value; when that value is missing they are "," and ";" and not an error.
C6_DelimiterDefaults ==
    LET g == iges.global_data_list
    IN  /\ Len(g) >= 1 => delimiter(iges) = [err |-> "none", val |-> g[1]]
        /\ Len(g) >= 2 => ending(iges) = [err |-> "none", val |-> g[2]]
        /\ Len(g) < 1 => delimiter(iges) = [err |-> "none", val |-> DEFAULT_DELIMITER]
        /\ Len(g) < 2 => ending(iges) = [err |-> "none", val |-> DEFAULT_ENDING]

\* the lines of a file before its first Terminate line, as <<section, index>>
RECURSIVE BeforeTerminate(_, _)
BeforeTerminate(f, i) ==
    IF i > Len(f) \/ parse_line(f, i - 1).err # "none" THEN <<>>
    ELSE IF parse_line(f, i - 1).line.section = "T" THEN <<>>
    ELSE <<<<parse_line(f, i - 1).line.section, i>>>> \o BeforeTerminate(f, i + 1)

\* every line is well formed and one of them is the Terminate line
WellFormedFile(f) ==
    /\ \A i \in 1..Len(f) :
         /\ parse_line(f, i - 1).err = "none"
         /\ parse_line(f, i - 1).line.section \in {"S", "G", "D", "P", "T"}
    /\ \E i \in 1..Len(f) : parse_line(f, i - 1).line.section = "T"

\* C7: unless a reader's read_line itself fails, read_file on a well-formed
\* file hands every line before the first Terminate line to its reader, in
\* file order, processes every unit that becomes ready and stops at the
\* Terminate line.
C7_DriverProtocol ==
    (/\ pc # "reading"
     /\ WellFormedFile(file)
     /\ ~(pc = "stopped" /\ last.op = "read_line"))
    => /\ pc = "done"
       /\ err = "none"
       /\ handed = BeforeTerminate(file, 1)

\* C8: an error raised while an entity is populated does not leave
\* process_unit, so the read goes on with the following lines.
C8_FailureConfined ==
    (LineProcessed("P") /\ last.called /\ last.aerr # "none") => err = "none"

FixedArity ==
    ("Point" :> 3) @@ ("Line" :> 6) @@ ("CircularArc" :> 7) @@ ("ConicArc" :> 12) @@
    ("Transformation" :> 12)

\* C9: a parameter unit whose number of values differs from the arity of a
\* fixed-arity type is rejected with an error and assigns nothing.  The type
\* of the error is ParameterArityError in the specification; the code defines
\* no such class, so any exception of add_parameters counts as the rejection.
C9_ArityRejected ==
    (/\ LineProcessed("P")
     /\ last.called
     /\ iges.entity_dict[last.ptr[1]].cls \in DOMAIN FixedArity
     /\ Len(last.args) # FixedArity[iges.entity_dict[last.ptr[1]].cls])
    => (last.aerr # "none" /\ ~last.changed)

\* C10: add_parameters receives one converted value for every token of the
\* record but the first, in record order; a Hollerith token <n>H<content>
\* gives exactly n characters.
C10_FullOrderedList ==
    (LineProcessed("P") /\ last.called) =>
        /\ Len(last.args) = Len(last.unit) - 1
        /\ \A i \in 1..Len(last.args) :
             /\ last.args[i] = convert(last.unit[i + 1]).val
             /\ Find(last.unit[i + 1], "H") # -1 =>
                  Len(last.args[i].s) =
                      PyInt(PySlice(last.unit[i + 1], 0, Find(last.unit[i + 1], "H"))).v

\* The values a Global text stands for: its tokens are separated by the
\* delimiter d and closed by the terminator e; a token is a number, or
\* <n>H followed by n characters of any kind.  ok is FALSE when the text is
\* not made of such tokens; a string that the text ends in the middle of
\* gives no value.
RECURSIVE RefScan(_, _, _)
RefScan(t, d, e) ==
    LET Fail == [ok |-> FALSE, vals |-> <<>>]
        Cons(v, r) == [ok |-> r.ok, vals |-> <<v>> \o r.vals]
        After(v, rest) ==
            IF rest = <<>> THEN Fail
            ELSE IF rest[1] = e
            THEN (IF LStrip(Tail(rest)) = <<>> THEN [ok |-> TRUE, vals |-> <<v>>] ELSE Fail)
            ELSE IF rest[1] = d THEN Cons(v, RefScan(Tail(rest), d, e))
            ELSE Fail
        Text(s, k, n) ==
            IF n.err # "none" \/ n.v < 0 THEN Fail
            ELSE IF Len(s) < k + n.v THEN [ok |-> TRUE, vals |-> <<>>]
            ELSE After(Str(SubSeq(s, k + 1, k + n.v)), SubSeq(s, k + n.v + 1, Len(s)))
        Number(s, k, f) ==
            IF f.err # "none" THEN Fail ELSE After(f.val, SubSeq(s, k, Len(s)))
        At(s, k) ==
            IF s[k] = "H" THEN Text(s, k, PyInt(SubSeq(s, 1, k - 1)))
            ELSE Number(s, k, PyFloat(SubSeq(s, 1, k - 1)))
        Token(s, ends) ==
            IF s = <<>> THEN [ok |-> TRUE, vals |-> <<>>]
            ELSE IF ends = {} THEN Fail
            ELSE At(s, SetMin(ends))
        Skip(s) == Token(s, {i \in 1..Len(s) : s[i] \in {d, e, "H"}})
    IN  Skip(LStrip(t))

\* C11: for Global lines made of numeric and Hollerith tokens separated by
\* ",", the values decoded so far are, in order, one number per numeric token
\* and the n characters of every <n>H token; a string that runs past the end
\* of a line gives no value on that line and, after the next line, the value
\* it has in the two lines joined.
C11_GlobalTokens ==
    \A ref \in {RefScan(Concat(fed), ",", ";")} :
        (fed # <<>> /\ ref.ok) =>
            /\ err = "none"
            /\ iges.global_data_list \o global_reader.unit_buffer = ref.vals

\* C12: when the first Global line declares a delimiter d other than ","
\* (its text starts 1H<d><d>1H<e>), the values decoded are those of the
\* tokens that d separates.
C12_DeclaredDelimiter ==
    \A t \in {LStrip(Concat(fed))} :
        (/\ Len(t) >= 7
         /\ t[1] = "1" /\ t[2] = "H" /\ t[4] = t[3] /\ t[5] = "1" /\ t[6] = "H"
         /\ t[3] # ",")
        => \A ref \in {RefScan(t, t[3], t[7])} :
               ref.ok =>
                   /\ err = "none"
                   /\ iges.global_data_list \o global_reader.unit_buffer = ref.vals

\* a Hollerith token that declares more characters than follow its H
ShortHollerith(token) ==
    /\ Find(token, "H") > 0
    /\ \A r \in {PyInt(PySlice(token, 0, Find(token, "H")))} :
           r.err = "none" /\ r.v > Len(token) - Find(token, "H") - 1

\* C13: a Hollerith string that declares more characters than the input
\* holds is an error.  (1) When a line of a later section is read while the
\* Global reader still waits for the rest of a string, the decode has
\* failed.  (2) When a parameter unit holds a token whose declared length
\* exceeds the characters after its H, converting the unit fails: the
\* entity is never handed the shortened text.
C13_TruncatedHollerith ==
    /\ (last.op = "read_line" /\ last.section \in {"D", "P"}
        /\ global_reader.left_over # <<>>) => err # "none"
    /\ (last.op = "process_unit" /\ last.section = "P"
        /\ \E j \in 1..Len(last.unit) : ShortHollerith(last.unit[j]))
       => (err # "none" /\ ~last.called)

\* C14: Hollerith round trip.  For every text s, those that hold an H, a
\* digit, the delimiter or the terminator included, read_hollerith of the
\* decimal numeral of len(s), an H and s returns s.
C14_HollerithRoundTrip ==
    call.op = "read_hollerith"
    => call.res = [err |-> "none", val |-> call.arg[1]]

\* a round trip of a text of ten characters or more that holds an H
C14_Witness ==
    /\ call.op = "read_hollerith"
    /\ Len(call.arg[1]) >= 10
    /\ \E i \in 1..Len(call.arg[1]) : call.arg[1][i] = "H"
    /\ call.res.err = "none"

\* the value of a component of a status field: a blank one counts as zero
ComponentValue(c) == IF c = <<>> \/ c = <<" ", " ">> THEN 0 ELSE StrToNat(c)

\* C15: status-number round trip.  parse_status_number of four two-digit
\* components joined by single spaces returns w*1000000 + x*10000 + y*100 + z,
\* a blank component counting as zero.
C15_StatusRoundTrip ==
    call.op = "parse_status_number"
    => call.res = [err |-> "none",
                   v   |-> ComponentValue(call.arg[1]) * 1000000
                           + ComponentValue(call.arg[2]) * 10000
                           + ComponentValue(call.arg[3]) * 100
                           + ComponentValue(call.arg[4])]

CurveCalled == call.op = "RationalBSplineCurve.add_parameters"

\* the values at the 0-based indices a .. b-1 of a list
Values(args, a, b) == SubSeq(args, a + 1, b)

SurfaceCalled == call.op = "RationalBSplineSurface.add_parameters"

\* C17: after RationalBSplineSurface.add_parameters succeeds with K1, K2, M1,
\* M2, the first knot vector holds the K1+M1+2 values after the nine
\* integers, the second the K2+M2+2 values that follow, and there are
\* (K1+1)(K2+1) weights and as many control points.
C17_SurfaceKnots ==
    (SurfaceCalled /\ call.res.err = "none") =>
        \A K1 \in {call.arg[1]}, K2 \in {call.arg[2]}, M1 \in {call.arg[3]},
           M2 \in {call.arg[4]}, args \in {call.arg[5]} :
            /\ call.res.e.attrs["knot1"] = Values(args, 9, 9 + K1 + M1 + 2)
            /\ call.res.e.attrs["knot2"]
                   = Values(args, 9 + K1 + M1 + 2, 9 + K1 + M1 + 2 + K2 + M2 + 2)
            /\ Len(call.res.e.attrs["weights"]) = (K1 + 1) * (K2 + 1)
            /\ Len(call.res.e.attrs["control_points"]) = 3 * (K1 + 1) * (K2 + 1)

\* C19: conic canonical form.  For the unit circle (a=1, b=0, c=1, d=0, e=0,
\* f=-1) the canonical semi-axis -S/(l1^2 * l2) is 1; for a degenerate conic,
\* l1 = 0 or l2 = 0, the computation ends in an error and divides nothing
\* by zero.
C19_ConicCanonical ==
    call.op = "get_major_raidus" =>
        /\ call.arg = <<1, 0, 1, 0, 0, -1>>
           => call.res.val = [kind |-> "finite", num |-> 1, den |-> 1]
        /\ (call.res.eig[1] = 0 \/ call.res.eig[2] = 0)
           => call.res.err # "none"

\* parameter lines read since the last reset that point back to the entity
\* at key
LinesOf(key) == Cardinality({i \in 1..Len(buffered.P) : Pointer(buffered.P[i]) = key})

\* C20: for a registered entity whose directory record declares n >= 1
\* parameter lines, after j lines with its back-pointer have been read since
\* the last reset, unit_ready() is true if and only if j = n.
C20_ReadyAtCount ==
    (/\ last.op = "read_line" /\ last.section = "P" /\ err = "none"
     /\ Registered(iges, param_reader.pointer))
    => \A key \in {param_reader.pointer[1]} :
           iges.entity_dict[key].parameter_line_count >= 1
           => (pending = "P"
               <=> LinesOf(key) = iges.entity_dict[key].parameter_line_count)

\* the columns of a physical line: its text without the final newline
Columns(line) ==
    IF line # <<>> /\ line[Len(line)] = "\n" THEN SubSeq(line, 1, Len(line) - 1) ELSE line

\* a line shorter than 73 columns, or one whose column 73 is no section code
Malformed(line) ==
    Len(Columns(line)) < 73 \/ line[73] \notin {"S", "G", "D", "P", "T"}

HandedOn(i) == \E k \in 1..Len(handed) : handed[k][2] = i

C21_UnitOfOneEntity ==
    (LineProcessed("P") /\ last.called)
    => \A i \in 1..Len(last.lines) : Pointer(last.lines[i]) = last.ptr[1]

\* C22: for 72-column directory lines unit_ready() is false after the first
\* line of a record and true after the second, the buffer then holds the
\* chunks of these two lines and nothing else, and process_unit leaves it
\* empty: each consecutive pair of lines forms exactly one unit.
C22_PairsFormUnits ==
    /\ (last.op = "read_line" /\ last.section = "D" /\ err = "none") =>
          /\ Len(buffered.D) \in {1, 2}
          /\ pending = (IF Len(buffered.D) = 2 THEN "D" ELSE "-")
          /\ data_reader.unit_buffer =
                 (IF Len(buffered.D) = 1
                  THEN chunk_string(DataContent1(derec), ENTRY_LENGTH)
                  ELSE chunk_string(DataContent1(derec), ENTRY_LENGTH)
                           \o chunk_string(DataContent2(derec), ENTRY_LENGTH))
    /\ (LineProcessed("D") /\ err = "none") =>
          /\ data_reader.unit_buffer = <<>>
          /\ Len(last.lines) = 2
          /\ last.lines[1] % 2 = 1
          /\ last.lines[2] = last.lines[1] + 1

\* the second record of a session has been read and processed
C22_Witness ==
    /\ LineProcessed("D") /\ err = "none"
    /\ last.lines = <<3, 4>>
    /\ data_reader.unit_buffer = <<>>

RecordProcessed == call.op = "DataEntrySectionReader.process_unit"

C24_IdleNotReady ==
    /\ start_reader.unit_buffer = <<>> => ~StartUnitReady(start_reader)
    /\ global_reader.unit_buffer = <<>> => ~GlobalUnitReady(global_reader)
    /\ data_reader.unit_buffer = <<>> => ~DataUnitReady(data_reader)
    /\ param_reader = NewParamReader => ~ParamUnitReady(param_reader, iges)

\* what identifies an entity: its class and its directory fields
DirFields(e) == [f \in (DOMAIN e) \ {"parameters", "attrs"} |-> e[f]]

\* C25: the registry only grows.  A key is added only by process_unit of
\* the Directory Entry reader, and no step removes a registered entity or
\* puts another entity under a key that is already registered.
C25_RegistryGrows ==
    [][/\ \A k \in DOMAIN iges.entity_dict :
              /\ k \in DOMAIN iges'.entity_dict
              /\ DirFields(iges'.entity_dict[k]) = DirFields(iges.entity_dict[k])
       /\ DOMAIN iges'.entity_dict # DOMAIN iges.entity_dict
              => (last'.op = "process_unit" /\ last'.section = "D")]_vars

\* C26: when the first Global line ends with the terminator ";", only that
\* last character is read as a delimiter: the values decoded from the line
\* are those decoded from the line with its last character replaced by ",",
\* so a ";" inside a Hollerith string stays, and the ending of a document
\* whose record declares 1H; is ";".
C26_OnlyTrailingTerminator ==
    \A j \in {IF Len(fed) = 1 THEN Strip(fed[1]) ELSE <<>>} :
        (j # <<>> /\ j[Len(j)] = ";") =>
            \A ref \in {GlobalScan(NewGlobalReader, 0,
                                   SubSeq(j, 1, Len(j) - 1) \o <<",">>)} :
                /\ err = ref.err
                /\ iges.global_data_list \o global_reader.unit_buffer = ref.rd.unit_buffer
                /\ (LineProcessed("G") /\ j = G_DECL) =>
                       ending(iges) = [err |-> "none", val |-> Str(<<";">>)]

\* C27: process_unit returns silently without populating only when the
\* back-pointer is not registered; when it is registered and process_unit
\* returns, add_parameters was called and returned normally, so no error of
\* add_parameters is swallowed with the entity partly populated (a
\* CopiousData that has its tuple_type has its point_list).
C27_NoSwallowedError ==
    (LineProcessed("P") /\ err = "none" /\ last.registered) =>
        /\ last.called
        /\ last.aerr = "none"
        /\ \A e \in {iges.entity_dict[last.ptr[1]]} :
               (e.cls = "CopiousData" /\ "tuple_type" \in DOMAIN e.attrs)
                   => "point_list" \in DOMAIN e.attrs

CopiousCalled == call.op = "CopiousData.add_parameters"

\* the values after the type code and, for couples, after the shared z
CopiousCoordinates == IF call.arg[1] = 1 THEN PyFrom(call.arg[2], 2) ELSE PyFrom(call.arg[2], 1)

\* C28: add_parameters with type code 1, 2 or 3 stores the values after the
\* type code (after the shared z for type 1) as consecutive tuples of 2, 3
\* and 6 values, in order; for type 1 every point also carries the shared z,
\* whatever its value, 0 included.
C28_TuplesOfArity ==
    (CopiousCalled /\ call.arg[1] \in {1, 2, 3}) =>
        \A length \in {TYPE2PARSE_LENGTH[call.arg[1]]}, c \in {CopiousCoordinates} :
            /\ call.res.err = "none"
            /\ call.res.e.attrs.point_list =
                   [k \in 1..(Len(c) \div length) |->
                       SubSeq(c, (k - 1) * length + 1, k * length)
                           \o (IF call.arg[1] = 1 THEN <<call.arg[2][2]>> ELSE <<>>)]

\* C29: after Face.add_parameters with a declared loop count n and at least
\* n values after the loop flag, loops holds exactly those n values, in order.
C29_FaceLoops ==
    (call.op = "Face.add_parameters" /\ Len(call.arg[2]) >= 3 + call.arg[1]) =>
        /\ call.res.err = "none"
        /\ call.res.e.attrs.loops = SubSeq(call.arg[2], 4, 3 + call.arg[1])

=============================================================================
